---- MODULE Spec2Model ----
(***************************************************************************)
(* Model of the FireBreak Lambda functions: the port-control handler       *)
(* (src/lambda_functions/port_control.py) and the port-status handler      *)
(* (src/lambda_functions/port_status.py).                                  *)
(*                                                                         *)
(* One invocation at a time is modelled.  A handler runs in two steps,     *)
(* split at its only blocking call (urllib.request.urlopen): the first     *)
(* step runs everything up to the request being sent, the second step      *)
(* takes the outcome of the device call and runs the handler to its        *)
(* return.                                                                 *)
(***************************************************************************)
EXTENDS Integers, Sequences, FiniteSets, TLC

----------------------------------------------------------------------------
(* Bounds of the model *)

\* longest sequence the appliance returns
MaxReplyLen == 2

\* integer ports outside 0..12 that are tried, on either side: -PortMargin .. 12 + PortMargin
PortMargin == 1
\* port numbers tried at each end of 1..65535, and beyond each end
PortProbe == 2

----------------------------------------------------------------------------
(* Strings are sequences of one-character strings, so that lower(),        *)
(* strip() and int() are computed and not assumed.                         *)

UpperChars == <<"A","B","C","D","E","F","G","H","I","J","K","L","M",
                "N","O","P","Q","R","S","T","U","V","W","X","Y","Z">>
LowerChars == <<"a","b","c","d","e","f","g","h","i","j","k","l","m",
                "n","o","p","q","r","s","t","u","v","w","x","y","z">>
DigitChars == <<"0","1","2","3","4","5","6","7","8","9">>
SpaceChars == {" ", "\t", "\n"}

\* str.lower() on one character
LowerChar(c) ==
    IF \E i \in 1..26 : UpperChars[i] = c
    THEN LowerChars[CHOOSE i \in 1..26 : UpperChars[i] = c]
    ELSE c

\* str.lower()
StrLower(s) == [i \in 1..Len(s) |-> LowerChar(s[i])]

\* str.strip(): drop leading and trailing whitespace
StrStrip(s) ==
    LET keep == {i \in 1..Len(s) : s[i] \notin SpaceChars}
    IN  IF keep = {} THEN <<>>
        ELSE LET lo == CHOOSE i \in keep : \A j \in keep : i <= j
                 hi == CHOOSE i \in keep : \A j \in keep : j <= i
             IN  SubSeq(s, lo, hi)

IsDigit(c) == \E i \in 1..10 : DigitChars[i] = c
DigitVal(c) == (CHOOSE i \in 1..10 : DigitChars[i] = c) - 1

RECURSIVE DigitsVal(_)
DigitsVal(s) ==
    IF s = <<>> THEN 0
    ELSE 10 * DigitsVal(SubSeq(s, 1, Len(s) - 1)) + DigitVal(s[Len(s)])

\* int(str): surrounding whitespace is ignored, one optional sign, then
\* one or more decimal digits; anything else raises ValueError
IntParses(s) ==
    LET t == StrStrip(s)
        d == IF t # <<>> /\ t[1] \in {"+", "-"} THEN Tail(t) ELSE t
    IN  d # <<>> /\ \A i \in 1..Len(d) : IsDigit(d[i])

IntOf(s) ==
    LET t == StrStrip(s)
        neg == t # <<>> /\ t[1] = "-"
        d == IF t # <<>> /\ t[1] \in {"+", "-"} THEN Tail(t) ELSE t
    IN  IF neg THEN 0 - DigitsVal(d) ELSE DigitsVal(d)

\* sub in s, for strings
StrContains(s, sub) ==
    \E i \in 1..(Len(s) + 1) :
        i + Len(sub) - 1 <= Len(s) /\ SubSeq(s, i, i + Len(sub) - 1) = sub

----------------------------------------------------------------------------
(* JSON scalars as the handlers see them after json.loads.  t is the       *)
(* Python type, n the numeric value (bool: 0/1, float: an integral float), *)
(* s the characters of a string.  "absent" is a key that is not there.     *)

JNull == [t |-> "null", n |-> 0, s |-> <<>>]
JAbsent == [t |-> "absent", n |-> 0, s |-> <<>>]
JBool(b) == [t |-> "bool", n |-> IF b THEN 1 ELSE 0, s |-> <<>>]
JInt(i) == [t |-> "int", n |-> i, s |-> <<>>]
JFloat(i) == [t |-> "float", n |-> i, s |-> <<>>]
JStr(s) == [t |-> "str", n |-> 0, s |-> s]
JList == [t |-> "list", n |-> 0, s |-> <<>>]

\* isinstance(v, int): bool is a subclass of int
IsInstanceInt(v) == v.t \in {"int", "bool"}
IsInstanceBool(v) == v.t = "bool"
IsInstanceStr(v) == v.t = "str"
\* dict.get(key) of a missing key and a JSON null are both None
IsNone(v) == v.t \in {"null", "absent"}

----------------------------------------------------------------------------
(* Values the appliance's JSON reply is made of.  An item is a JSON object *)
(* with an optional "port" key and an "active" key, or a scalar.  A reply  *)
(* value is a JSON array of items, or one item.                            *)

DictItem(p, a) == [kind |-> "dict", port |-> p, active |-> a, v |-> JNull]
ScalarItem(v) == [kind |-> "scalar", port |-> JAbsent, active |-> JAbsent, v |-> v]
RList(items) == [kind |-> "list", items |-> items, item |-> ScalarItem(JNull)]
RItem(item) == [kind |-> "item", items |-> <<>>, item |-> item]
NoValue == RItem(ScalarItem(JAbsent))

IsList(rv) == rv.kind = "list"
IsDict(rv) == rv.kind = "item" /\ rv.item.kind = "dict"

\* 'port' in port_data: a key test on a dict, a substring test on a str,
\* a TypeError on any other scalar
PortInRaises(item) == item.kind = "scalar" /\ item.v.t # "str"
PortIn(item) ==
    IF item.kind = "dict" THEN item.port.t # "absent"
    ELSE StrContains(item.v.s, <<"p","o","r","t">>)

\* port_data['port'] + 1 raises TypeError unless the value is a number
PlusOneRaises(item) == item.kind # "dict" \/ item.port.t \notin {"int", "bool", "float"}
PlusOne(item) ==
    [item EXCEPT !.port = IF item.port.t = "float" THEN JFloat(item.port.n + 1)
                          ELSE JInt(item.port.n + 1)]

----------------------------------------------------------------------------
(* Exceptions: the classes the handlers' except clauses tell apart. *)

ExcParent(cls) ==
    CASE cls = "JSONDecodeError" -> "ValueError"
      [] cls = "UnicodeDecodeError" -> "ValueError"
      [] cls = "HTTPError" -> "URLError"
      [] cls = "URLError" -> "OSError"
      [] cls = "TimeoutError" -> "OSError"
      [] OTHER -> "Exception"

RECURSIVE IsSubclass(_, _)
IsSubclass(cls, base) ==
    IF cls = base THEN TRUE
    ELSE IF cls = "Exception" THEN FALSE
    ELSE IsSubclass(ExcParent(cls), base)

Raise(cls, msg) == [exc |-> cls, msg |-> msg, code |-> 0, value |-> NoValue]
RaiseHTTP(c) == [exc |-> "HTTPError", msg |-> "", code |-> c, value |-> NoValue]
Return(rv) == [exc |-> "none", msg |-> "", code |-> 0, value |-> rv]

----------------------------------------------------------------------------
(* parse_bool *)

sTrue == <<"t","r","u","e">>
sFalse == <<"f","a","l","s","e">>
TrueWords == {sTrue, <<"1">>, <<"y","e","s">>, <<"y">>, <<"o","n">>}
FalseWords == {sFalse, <<"0">>, <<"n","o">>, <<"n">>, <<"o","f","f">>}

\* variant: every integer is taken
ParseBoolRaises_AnyInt(value) ==
    IF IsInstanceBool(value) THEN FALSE
    ELSE IF IsInstanceInt(value) THEN FALSE
    ELSE IF IsInstanceStr(value)
         THEN StrLower(StrStrip(value.s)) \notin (TrueWords \cup FalseWords)
    ELSE TRUE

\* parse_bool raises ValueError
ParseBoolRaises(value) ==
    IF IsInstanceBool(value) THEN FALSE
    ELSE IF IsInstanceInt(value) THEN value.n \notin {0, 1}
    ELSE IF IsInstanceStr(value)
         THEN StrLower(StrStrip(value.s)) \notin (TrueWords \cup FalseWords)
    ELSE TRUE

\* the boolean parse_bool returns when it does not raise
parse_bool(value) ==
    IF IsInstanceBool(value) THEN value.n = 1
    ELSE IF IsInstanceInt(value) THEN value.n = 1
    ELSE StrLower(StrStrip(value.s)) \in TrueWords

----------------------------------------------------------------------------
(* validate_api_ip.  Two characters outside ASCII stand for the classes    *)
(* Python tells apart: "u0663" (ARABIC-INDIC DIGIT THREE, a decimal digit  *)
(* for \d, isdigit() and int()) and "u00B2" (SUPERSCRIPT TWO, a digit for  *)
(* isdigit() only).                                                        *)

sLocalhost == <<"l","o","c","a","l","h","o","s","t">>
DangerousChars == {"@", "/", "\\", "?", "#"}

\* characters of the class [A-Za-z0-9]
IsAlnumChar(c) ==
    \/ \E i \in 1..26 : UpperChars[i] = c \/ LowerChars[i] = c
    \/ IsDigit(c)

\* characters \d matches and int() converts
IsDecimalChar(c) == IsDigit(c) \/ c = "u0663"
DecimalVal(c) == IF c = "u0663" THEN 3 ELSE DigitVal(c)

\* str.isdigit()
StrIsDigit(s) ==
    s # << >> /\ \A i \in 1..Len(s) : IsDecimalChar(s[i]) \/ s[i] = "u00B2"

\* int(port_str) raises ValueError
PortIntRaises(s) == \E i \in 1..Len(s) : ~IsDecimalChar(s[i])

RECURSIVE PortIntOf(_)
PortIntOf(s) ==
    IF s = << >> THEN 0
    ELSE 10 * PortIntOf(SubSeq(s, 1, Len(s) - 1)) + DecimalVal(s[Len(s)])

\* the positions of character c in s
Positions(s, c) == {i \in 1..Len(s) : s[i] = c}

\* str.split(c): the pieces of s between the occurrences of c
Split(s, c) ==
    LET cuts == Positions(s, c)
        n == Cardinality(cuts)
        \* the k-th cut, with 0 before the first and Len(s) + 1 after the last
        Cut(k) == IF k = 0 THEN 0
                  ELSE IF k = n + 1 THEN Len(s) + 1
                  ELSE CHOOSE i \in cuts : Cardinality({j \in cuts : j < i}) = k - 1
    IN  [k \in 1..(n + 1) |-> SubSeq(s, Cut(k - 1) + 1, Cut(k) - 1)]

\* what a pattern ending in $ is matched against: $ matches at the end of
\* the string and also just before a newline that ends the string
BeforeDollar(s) ==
    IF s # << >> /\ s[Len(s)] = "\n" THEN SubSeq(s, 1, Len(s) - 1) ELSE s

\* (?:25[0-5]|2[0-4]\d|[01]?\d\d?) matching the whole of s
IsOctet(s) ==
    \/ Len(s) \in 1..2 /\ \A i \in 1..Len(s) : IsDecimalChar(s[i])
    \/ Len(s) = 3 /\ s[1] \in {"0", "1"} /\ IsDecimalChar(s[2]) /\ IsDecimalChar(s[3])
    \/ Len(s) = 3 /\ s[1] = "2" /\ s[2] \in {"0", "1", "2", "3", "4"} /\ IsDecimalChar(s[3])
    \/ Len(s) = 3 /\ s[1] = "2" /\ s[2] = "5" /\ s[3] \in {"0", "1", "2", "3", "4", "5"}

\* re.match(ipv4_pattern, host) is not None
Ipv4Match(host) ==
    LET parts == Split(BeforeDollar(host), ".")
    IN  Len(parts) = 4 /\ \A k \in 1..4 : IsOctet(parts[k])

\* variant: a label has at most 62 characters
IsLabel_Short(s) ==
    /\ Len(s) \in 1..62
    /\ IsAlnumChar(s[1])
    /\ IsAlnumChar(s[Len(s)])
    /\ \A i \in 1..Len(s) : IsAlnumChar(s[i]) \/ s[i] = "-"

\* [A-Za-z0-9](?:[A-Za-z0-9\-]{0,61}[A-Za-z0-9])? matching the whole of s
IsLabel(s) ==
    /\ Len(s) \in 1..63
    /\ IsAlnumChar(s[1])
    /\ IsAlnumChar(s[Len(s)])
    /\ \A i \in 1..Len(s) : IsAlnumChar(s[i]) \/ s[i] = "-"

\* re.match(dns_pattern, host) is not None
DnsMatch(host) ==
    LET h == BeforeDollar(host)
        parts == Split(h, ".")
    IN  /\ Len(h) \in 1..253
        /\ \A k \in 1..Len(parts) : IsLabel(parts[k])

\* the host part is one of the allowed forms
HostOk(host) == host = sLocalhost \/ Ipv4Match(host) \/ DnsMatch(host)

\* variant: the port may be 0
PortOk_ZeroAllowed(port_str) ==
    /\ StrIsDigit(port_str)
    /\ ~PortIntRaises(port_str)
    /\ PortIntOf(port_str) <= 65535

\* the optional port is all digits and in 1..65535; a ValueError of int()
\* is caught and makes the string invalid
PortOk(port_str) ==
    /\ StrIsDigit(port_str)
    /\ ~PortIntRaises(port_str)
    /\ PortIntOf(port_str) >= 1
    /\ PortIntOf(port_str) <= 65535

HasDangerousChar(ip_str) == \E i \in 1..Len(ip_str) : ip_str[i] \in DangerousChars

\* variant: any number of ':' separated parts is let through
validate_api_ip_AnyParts(ip_str) ==
    IF ip_str = << >> THEN FALSE
    ELSE IF HasDangerousChar(ip_str) THEN FALSE
    ELSE LET parts == Split(ip_str, ":")
         IN  IF ~HostOk(parts[1]) THEN FALSE
             ELSE IF Len(parts) >= 2 /\ ~PortOk(parts[2]) THEN FALSE
             ELSE TRUE

validate_api_ip(ip_str) ==
    IF ip_str = << >> THEN FALSE
    ELSE IF HasDangerousChar(ip_str) THEN FALSE
    ELSE LET parts == Split(ip_str, ":")
         IN  IF Len(parts) > 2 THEN FALSE
             ELSE IF ~HostOk(parts[1]) THEN FALSE
             ELSE IF Len(parts) = 2 /\ ~PortOk(parts[2]) THEN FALSE
             ELSE TRUE

----------------------------------------------------------------------------
(* State *)

VARIABLES
    inflight,      \* the invocations one loaded module serves at the same time
    API_IP,        \* environment: the appliance address, << >> when not set
    loaded,        \* the module this execution environment imported:
                   \* "none" before the import, "failed" when the import raised
    API_URL,       \* module global: the endpoint, NoUrl until it is built
    fn,            \* the pure function that was called directly, "none" before
    arg,           \* its argument
    res,           \* its result
    PORT_OFFSET,   \* module configuration: physical numbering on or off
    API_TOKEN,     \* module configuration: the bearer token, "" when not set
    handler,       \* the lambda_handler that is running or ran last
    pc,            \* "idle", "urlopen" (blocked in the device call), "returned"
    event,         \* the event of the invocation
    sent,          \* the requests this invocation has sent to the appliance
    outcome,       \* what the device call came back with
    envelope       \* what lambda_handler returned

vars == <<inflight, API_IP, loaded, API_URL, fn, arg, res,
          PORT_OFFSET, API_TOKEN, handler, pc, event, sent, outcome, envelope>>

----------------------------------------------------------------------------
(* Envelopes *)

MsgToken == "API_TOKEN environment variable is missing"
MsgBadBody == "Invalid JSON in request body"
MsgNoPort == "Missing required parameter: port"
MsgNoActivate == "Missing required parameter: activate"
MsgPortNaN == "FireBreak port must be a number (0-11) or 'all'"
MsgBadBool == "Invalid value for 'activate': expected boolean (true/false) or equivalent"
MsgRangePhysical == "FireBreak port must be an integer between 1 and 12 (physical numbering)"
MsgRangeAPI == "FireBreak port must be an integer between 0 and 11 (API numbering)"
MsgTypePhysical == "FireBreak port must be an integer (1-12, physical numbering) or 'all'"
MsgTypeAPI == "FireBreak port must be an integer (0-11, API numbering) or 'all'"
MsgBadReply == "Invalid JSON response from Goldilock FireBreak API"
MsgHTTP == "Goldilock FireBreak API HTTP error"
MsgURL == "Goldilock FireBreak API URL error"
MsgUnexpectedControl == "Unexpected error occurred while controlling Goldilock FireBreak API"
MsgUnexpectedStatus == "Unexpected error occurred while querying Goldilock FireBreak API"
MsgUndecodable == "'utf-8' codec can't decode byte"

\* the body before json.dumps: shape "error" {error, executionTimeMs?},
\* "ports" {ports: value, executionTimeMs}, "merged" {**value, executionTimeMs}
ErrorBody(msg, timed) ==
    [shape |-> "error", error |-> msg, executionTimeMs |-> timed, value |-> NoValue]
PortsBody(rv) ==
    [shape |-> "ports", error |-> "", executionTimeMs |-> TRUE, value |-> rv]
MergedBody(rv) ==
    [shape |-> "merged", error |-> "", executionTimeMs |-> TRUE, value |-> rv]

Envelope(code, body) ==
    [raised |-> "none", statusCode |-> code, contentType |-> "application/json", body |-> body]
\* no envelope: the exception left lambda_handler
Unhandled(cls) ==
    [raised |-> cls, statusCode |-> 0, contentType |-> "", body |-> ErrorBody("", FALSE)]
NoEnvelope ==
    [raised |-> "none", statusCode |-> 0, contentType |-> "", body |-> ErrorBody("", FALSE)]

----------------------------------------------------------------------------
(* Requests and outcomes of the device call *)

sAll == <<"a","l","l">>

\* f"https://{API_IP}<path>"
Url(ip, path) == [scheme |-> "https", authority |-> ip, path |-> path]
NoUrl == [scheme |-> "", authority |-> << >>, path |-> ""]
ControlPath == "/api/websocket/port-control"
StatusPath == "/api/websocket/get-all-status"

PostRequest(api_port, activate) ==
    [method |-> "POST", url |-> API_URL, port |-> api_port, activate |-> JBool(activate)]
GetRequest == [method |-> "GET", url |-> API_URL, port |-> JAbsent, activate |-> JAbsent]

\* redirects is the number of further requests urlopen made on its own:
\* its default opener follows a 301, 302 or 303 (and for a GET a 307 or
\* 308) with a GET of the Location, and comes back with that one's outcome
NoOutcome == [kind |-> "none", code |-> 0, value |-> NoValue, redirects |-> 0]
\* 2xx, body is the JSON text of rv
OkJson(rv) == [kind |-> "json", code |-> 200, value |-> rv, redirects |-> 0]
\* 2xx, body is not JSON: json.loads raises JSONDecodeError
OkNotJson == [kind |-> "not_json", code |-> 200, value |-> NoValue, redirects |-> 0]
\* 2xx, body is not UTF-8: decode raises UnicodeDecodeError
OkUndecodable == [kind |-> "undecodable", code |-> 200, value |-> NoValue, redirects |-> 0]
\* non-2xx: urlopen raises HTTPError
HttpError(c) == [kind |-> "http_error", code |-> c, value |-> NoValue, redirects |-> 0]
\* connection failure or timeout while connecting or sending: urlopen raises URLError
UrlError == [kind |-> "url_error", code |-> 0, value |-> NoValue, redirects |-> 0]
\* timeout while waiting for or reading the response: a bare TimeoutError
ReadTimeout == [kind |-> "read_timeout", code |-> 0, value |-> NoValue, redirects |-> 0]
\* the appliance answered the request with a redirect, urlopen followed
\* it and the second request ended as o
ViaRedirect(o) == [o EXCEPT !.redirects = 1]

----------------------------------------------------------------------------
(* Events.  body.kind is "absent" (no body key), "empty" (a falsy body,    *)
(* such as ""), "invalid_json" (a non-empty string that is not JSON),      *)
(* "json_object" (the text of a JSON object with the given port and        *)
(* activate), "json_other" (valid JSON that is not an object) or "not_str" *)
(* (a truthy body that is not a string).                                   *)

Body(kind, p, a) == [kind |-> kind, port |-> p, activate |-> a]
NoBody == Body("absent", JAbsent, JAbsent)
Event(kind, body, p, a) == [kind |-> kind, body |-> body, port |-> p, activate |-> a]
NoEvent == Event("dict", NoBody, JAbsent, JAbsent)

\* "body" in event and event["body"]
BodyTruthy(ev) == ev.body.kind \notin {"absent", "empty"}

\* the exception raised while port and activate are read from the event,
\* "none" when they are read
ExtractExc(ev) ==
    CASE ev.kind = "null" -> "TypeError"
      [] ev.kind = "list" -> "AttributeError"
      [] ev.kind = "dict" /\ ev.body.kind = "not_str" -> "TypeError"
      [] ev.kind = "dict" /\ ev.body.kind = "invalid_json" -> "JSONDecodeError"
      [] ev.kind = "dict" /\ ev.body.kind = "json_other" -> "AttributeError"
      [] OTHER -> "none"

\* variant: a top-level port wins over the body's
ExtractedPort_TopLevelFirst(ev) ==
    IF BodyTruthy(ev) /\ ev.port = JAbsent THEN ev.body.port ELSE ev.port

ExtractedPort(ev) == IF BodyTruthy(ev) THEN ev.body.port ELSE ev.port
ExtractedActivate(ev) == IF BodyTruthy(ev) THEN ev.body.activate ELSE ev.activate

\* a string port that is neither "all" (ignoring case) nor accepted by int()
PortNotANumber(port) ==
    IsInstanceStr(port) /\ StrLower(port.s) # sAll /\ ~IntParses(port.s)

\* variant: an "all" in another case is kept as the caller spelled it
NormalizePort_KeepCase(port) ==
    IF IsInstanceStr(port)
    THEN IF StrLower(port.s) = sAll THEN port ELSE JInt(IntOf(port.s))
    ELSE port

\* the port after the handler's normalisation of a string port
NormalizePort(port) ==
    IF IsInstanceStr(port)
    THEN IF StrLower(port.s) = sAll THEN JStr(sAll) ELSE JInt(IntOf(port.s))
    ELSE port

----------------------------------------------------------------------------
(* control_port, up to the request *)

\* control_port raises ValueError for this port
ApiPortRaises(port) ==
    IF IsInstanceInt(port)
    THEN IF PORT_OFFSET THEN port.n < 1 \/ port.n > 12
         ELSE port.n < 0 \/ port.n > 11
    ELSE ~(IsInstanceStr(port) /\ port.s = sAll)

ApiPortError(port) ==
    IF IsInstanceInt(port)
    THEN IF PORT_OFFSET THEN MsgRangePhysical ELSE MsgRangeAPI
    ELSE IF PORT_OFFSET THEN MsgTypePhysical ELSE MsgTypeAPI

\* variant: the physical port is sent as it is
ApiPort_NoOffset(port) == port

\* api_port: port - 1 is an int also when port is a bool; with the offset
\* off the value is used as it is
ApiPort(port) ==
    IF IsInstanceInt(port)
    THEN IF PORT_OFFSET THEN JInt(port.n - 1) ELSE port
    ELSE port

\* variant: the request is sent before the port is validated
SendsRequest_Always(port) == TRUE

\* the request is built and sent only after the port passed validation
SendsRequest(port) == ~ApiPortRaises(port)

----------------------------------------------------------------------------
(* The inverse mapping of the reply *)

TranslateListRaises(rv) ==
    \E i \in 1..Len(rv.items) :
        \/ PortInRaises(rv.items[i])
        \/ PortIn(rv.items[i]) /\ PlusOneRaises(rv.items[i])

\* variant: the offset is applied twice to each element
TranslateList_Twice(rv) ==
    RList([i \in 1..Len(rv.items) |->
            IF PortIn(rv.items[i]) THEN PlusOne(PlusOne(rv.items[i])) ELSE rv.items[i]])

TranslateList(rv) ==
    RList([i \in 1..Len(rv.items) |->
            IF PortIn(rv.items[i]) THEN PlusOne(rv.items[i]) ELSE rv.items[i]])

\* variant: the reply is returned in device numbering
TranslateControl_NoInverse(rv) == Return(rv)

\* control_port, from the parsed reply to its return value
TranslateControl(rv) ==
    IF PORT_OFFSET
    THEN IF IsDict(rv) /\ PortIn(rv.item)
         THEN IF PlusOneRaises(rv.item) THEN Raise("TypeError", "")
              ELSE Return(RItem(PlusOne(rv.item)))
         ELSE IF IsList(rv)
         THEN IF TranslateListRaises(rv) THEN Raise("TypeError", "")
              ELSE Return(TranslateList(rv))
         ELSE Return(rv)
    ELSE Return(rv)

\* fetch_port_status, from the parsed reply to its return value
TranslateStatus(rv) ==
    IF PORT_OFFSET /\ IsList(rv)
    THEN IF TranslateListRaises(rv) THEN Raise("TypeError", "")
         ELSE Return(TranslateList(rv))
    ELSE Return(rv)

\* what urlopen, read, decode and json.loads make of the device's answer
ReceiveRaises(o) ==
    CASE o.kind = "http_error" -> RaiseHTTP(o.code)
      [] o.kind = "url_error" -> Raise("URLError", "")
      [] o.kind = "read_timeout" -> Raise("TimeoutError", "")
      [] o.kind = "undecodable" -> Raise("UnicodeDecodeError", MsgUndecodable)
      [] o.kind = "not_json" -> Raise("JSONDecodeError", "")
      [] OTHER -> Return(o.value)

control_port(o) ==
    IF o.kind = "json" THEN TranslateControl(o.value) ELSE ReceiveRaises(o)

fetch_port_status(o) ==
    IF o.kind = "json" THEN TranslateStatus(o.value) ELSE ReceiveRaises(o)

----------------------------------------------------------------------------
(* lambda_handler of port_control.py *)

\* variant: no catch-all clause
ControlExceptClauses_NoCatchAll == <<"JSONDecodeError", "ValueError", "HTTPError", "URLError">>

\* the except clauses of the handler, in the order they are written
ControlExceptClauses == <<"JSONDecodeError", "ValueError", "HTTPError", "URLError", "Exception">>

\* variant: a ValueError is reported as a server error
ControlExceptEnvelope_ValueError500(clause, e) ==
    CASE clause = "JSONDecodeError" -> Envelope(500, ErrorBody(MsgBadReply, TRUE))
      [] clause = "ValueError" -> Envelope(500, ErrorBody(e.msg, TRUE))
      [] clause = "HTTPError" -> Envelope(e.code, ErrorBody(MsgHTTP, TRUE))
      [] clause = "URLError" -> Envelope(502, ErrorBody(MsgURL, TRUE))
      [] OTHER -> Envelope(500, ErrorBody(MsgUnexpectedControl, TRUE))

\* variant: the catch-all clause reports the exception it caught
ControlExceptEnvelope_Leaks(clause, e) ==
    CASE clause = "JSONDecodeError" -> Envelope(500, ErrorBody(MsgBadReply, TRUE))
      [] clause = "ValueError" -> Envelope(400, ErrorBody(e.msg, TRUE))
      [] clause = "HTTPError" -> Envelope(e.code, ErrorBody(MsgHTTP, TRUE))
      [] clause = "URLError" -> Envelope(502, ErrorBody(MsgURL, TRUE))
      [] OTHER -> Envelope(500, ErrorBody(e.exc, TRUE))

ControlExceptEnvelope(clause, e) ==
    CASE clause = "JSONDecodeError" -> Envelope(500, ErrorBody(MsgBadReply, TRUE))
      [] clause = "ValueError" -> Envelope(400, ErrorBody(e.msg, TRUE))
      [] clause = "HTTPError" -> Envelope(e.code, ErrorBody(MsgHTTP, TRUE))
      [] clause = "URLError" -> Envelope(502, ErrorBody(MsgURL, TRUE))
      [] OTHER -> Envelope(500, ErrorBody(MsgUnexpectedControl, TRUE))

\* the envelope the try statement makes of exception e: the first clause
\* whose class e is an instance of; with no such clause e leaves the handler
ControlHandle(e) ==
    LET hits == {i \in 1..Len(ControlExceptClauses) :
                    IsSubclass(e.exc, ControlExceptClauses[i])}
    IN  IF hits = {} THEN Unhandled(e.exc)
        ELSE ControlExceptEnvelope(
                ControlExceptClauses[CHOOSE i \in hits : \A j \in hits : i <= j], e)

\* the envelope for the invalid JSON body
BadBodyEnvelope == Envelope(400, ErrorBody(MsgBadBody, FALSE))

\* variant: the credential is checked after the request body is parsed
ControlValidate_TokenLate(ev) ==
    IF ExtractExc(ev) = "JSONDecodeError" THEN BadBodyEnvelope
    ELSE IF API_TOKEN = "" THEN Envelope(500, ErrorBody(MsgToken, TRUE))
    ELSE IF ExtractExc(ev) # "none" THEN ControlHandle(Raise(ExtractExc(ev), ""))
    ELSE IF IsNone(ExtractedPort(ev)) THEN Envelope(400, ErrorBody(MsgNoPort, TRUE))
    ELSE IF IsNone(ExtractedActivate(ev)) THEN Envelope(400, ErrorBody(MsgNoActivate, TRUE))
    ELSE IF PortNotANumber(ExtractedPort(ev)) THEN Envelope(400, ErrorBody(MsgPortNaN, TRUE))
    ELSE IF ParseBoolRaises(ExtractedActivate(ev)) THEN Envelope(400, ErrorBody(MsgBadBool, TRUE))
    ELSE IF ApiPortRaises(NormalizePort(ExtractedPort(ev)))
         THEN ControlHandle(Raise("ValueError", ApiPortError(NormalizePort(ExtractedPort(ev)))))
    ELSE NoEnvelope

\* variant: the port range is checked before activate is coerced
ControlValidate_RangeFirst(ev) ==
    IF API_TOKEN = "" THEN Envelope(500, ErrorBody(MsgToken, TRUE))
    ELSE IF ExtractExc(ev) = "JSONDecodeError" THEN BadBodyEnvelope
    ELSE IF ExtractExc(ev) # "none" THEN ControlHandle(Raise(ExtractExc(ev), ""))
    ELSE IF IsNone(ExtractedPort(ev)) THEN Envelope(400, ErrorBody(MsgNoPort, TRUE))
    ELSE IF IsNone(ExtractedActivate(ev)) THEN Envelope(400, ErrorBody(MsgNoActivate, TRUE))
    ELSE IF PortNotANumber(ExtractedPort(ev)) THEN Envelope(400, ErrorBody(MsgPortNaN, TRUE))
    ELSE IF ApiPortRaises(NormalizePort(ExtractedPort(ev)))
         THEN ControlHandle(Raise("ValueError", ApiPortError(NormalizePort(ExtractedPort(ev)))))
    ELSE IF ParseBoolRaises(ExtractedActivate(ev)) THEN Envelope(400, ErrorBody(MsgBadBool, TRUE))
    ELSE NoEnvelope

\* the handler up to the device call: the envelope it returns, NoEnvelope
\* when it goes on to wait for the device
ControlValidate(ev) ==
    IF API_TOKEN = "" THEN Envelope(500, ErrorBody(MsgToken, TRUE))
    ELSE IF ExtractExc(ev) = "JSONDecodeError" THEN BadBodyEnvelope
    ELSE IF ExtractExc(ev) # "none" THEN ControlHandle(Raise(ExtractExc(ev), ""))
    ELSE IF IsNone(ExtractedPort(ev)) THEN Envelope(400, ErrorBody(MsgNoPort, TRUE))
    ELSE IF IsNone(ExtractedActivate(ev)) THEN Envelope(400, ErrorBody(MsgNoActivate, TRUE))
    ELSE IF PortNotANumber(ExtractedPort(ev)) THEN Envelope(400, ErrorBody(MsgPortNaN, TRUE))
    ELSE IF ParseBoolRaises(ExtractedActivate(ev)) THEN Envelope(400, ErrorBody(MsgBadBool, TRUE))
    ELSE IF ApiPortRaises(NormalizePort(ExtractedPort(ev)))
         THEN ControlHandle(Raise("ValueError", ApiPortError(NormalizePort(ExtractedPort(ev)))))
    ELSE NoEnvelope

\* control_port is called: everything before it passed
ControlCalls(ev) ==
    /\ API_TOKEN # ""
    /\ ExtractExc(ev) = "none"
    /\ ~IsNone(ExtractedPort(ev))
    /\ ~IsNone(ExtractedActivate(ev))
    /\ ~PortNotANumber(ExtractedPort(ev))
    /\ ~ParseBoolRaises(ExtractedActivate(ev))

\* the requests sent before the handler returns or blocks
ControlRequests(ev) ==
    IF ControlCalls(ev) /\ SendsRequest(NormalizePort(ExtractedPort(ev)))
    THEN << PostRequest(ApiPort(NormalizePort(ExtractedPort(ev))),
                        parse_bool(ExtractedActivate(ev))) >>
    ELSE << >>

\* variant: a single status object is nested under ports as well
ControlFinish_AlwaysNested(r) ==
    IF r.exc # "none" THEN ControlHandle(r)
    ELSE IF IsList(r.value) THEN Envelope(200, PortsBody(r.value))
    ELSE IF IsDict(r.value) THEN Envelope(200, PortsBody(r.value))
    ELSE ControlHandle(Raise("TypeError", ""))

\* the handler from control_port's result to its return
ControlFinish(r) ==
    IF r.exc # "none" THEN ControlHandle(r)
    ELSE IF IsList(r.value) THEN Envelope(200, PortsBody(r.value))
    ELSE IF IsDict(r.value) THEN Envelope(200, MergedBody(r.value))
    ELSE ControlHandle(Raise("TypeError", ""))

----------------------------------------------------------------------------
(* lambda_handler of port_status.py *)

\* variant: the URLError clause is written before the HTTPError clause
StatusExceptClauses_URLFirst == <<"URLError", "HTTPError", "JSONDecodeError", "Exception">>

StatusExceptClauses == <<"HTTPError", "URLError", "JSONDecodeError", "Exception">>

StatusExceptEnvelope(clause, e) ==
    CASE clause = "HTTPError" -> Envelope(e.code, ErrorBody(MsgHTTP, TRUE))
      [] clause = "URLError" -> Envelope(502, ErrorBody(MsgURL, TRUE))
      [] clause = "JSONDecodeError" -> Envelope(500, ErrorBody(MsgBadReply, TRUE))
      [] OTHER -> Envelope(500, ErrorBody(MsgUnexpectedStatus, TRUE))

StatusHandle(e) ==
    LET hits == {i \in 1..Len(StatusExceptClauses) :
                    IsSubclass(e.exc, StatusExceptClauses[i])}
    IN  IF hits = {} THEN Unhandled(e.exc)
        ELSE StatusExceptEnvelope(
                StatusExceptClauses[CHOOSE i \in hits : \A j \in hits : i <= j], e)

StatusValidate(ev) ==
    IF API_TOKEN = "" THEN Envelope(500, ErrorBody(MsgToken, TRUE)) ELSE NoEnvelope

StatusRequests(ev) == IF API_TOKEN = "" THEN << >> ELSE << GetRequest >>

\* len(data) raises TypeError for a number, a boolean or null
LenRaises(rv) == rv.kind = "item" /\ rv.item.kind = "scalar" /\ rv.item.v.t # "str"

StatusFinish(r) ==
    IF r.exc # "none" THEN StatusHandle(r)
    ELSE IF LenRaises(r.value) THEN StatusHandle(Raise("TypeError", ""))
    ELSE Envelope(200, PortsBody(r.value))

----------------------------------------------------------------------------
(* Inputs: the events the handlers are invoked with and the outcomes of    *)
(* the device call.                                                        *)

PortStrings ==
    { sAll, <<"A","L","L">>, <<"A","l","l">>, <<" ","a","l","l">>,
      <<"3">>, <<"1","2">>, <<" ","7"," ">>, <<"0">>, <<"+","4">>,
      <<"1","3">>, <<"-","1">>, <<"a","b","c">>, <<"1",".","5">>, << >> }

PortValues ==
    {JInt(i) : i \in (0 - PortMargin)..(12 + PortMargin)}
    \cup {JStr(str) : str \in PortStrings}
    \cup {JBool(TRUE), JBool(FALSE), JNull, JAbsent, JFloat(4), JList}

ActivateStrings ==
    { sTrue, <<"Y","E","S">>, <<" ","O","n"," ">>, <<"1">>,
      sFalse, <<"o","f","f">>, <<"N">>, <<"0">>,
      <<"m","a","y","b","e">>, <<"2">>, << >> }

ActivateValues ==
    {JStr(str) : str \in ActivateStrings}
    \cup {JBool(TRUE), JBool(FALSE), JInt(0), JInt(1), JInt(2),
          JNull, JAbsent, JFloat(1), JList}

\* top-level fields beside a body: none, or a complete valid pair
TopLevelPairs == { <<JAbsent, JAbsent>>, <<JInt(5), JBool(TRUE)>> }

ControlEvents ==
    {Event("dict", NoBody, p, a) : p \in PortValues, a \in ActivateValues}
    \cup {Event("dict", Body("json_object", p, a), t[1], t[2]) :
            p \in PortValues, a \in ActivateValues, t \in TopLevelPairs}
    \cup {Event("dict", Body(k, JAbsent, JAbsent), t[1], t[2]) :
            k \in {"empty", "invalid_json", "json_other", "not_str"}, t \in TopLevelPairs}
    \cup {Event(k, NoBody, JAbsent, JAbsent) : k \in {"list", "null"}}

StatusEvents == {Event(k, NoBody, JAbsent, JAbsent) : k \in {"dict", "list", "null"}}

\* port status objects as the appliance reports them
StatusItems == {DictItem(JInt(0), JInt(0)), DictItem(JInt(11), JBool(TRUE))}

\* other members of a JSON reply
OddItems ==
    { DictItem(JAbsent, JInt(1)), DictItem(JStr(<<"x">>), JInt(1)),
      ScalarItem(JInt(1)), ScalarItem(JStr(<<"a">>)) }

ReplyItems == StatusItems \cup OddItems

\* the appliance's answer to "all": one status object per port, in order
FullReply(act) == RList([i \in 1..12 |-> DictItem(JInt(i - 1), act)])

\* the appliance's answer to one port: the port it was sent and its state
EchoReplies(req) ==
    IF req.method = "POST" /\ req.port.t # "str"
    THEN {RItem(DictItem(req.port, req.activate))}
    ELSE {}

UpstreamCodes == {304, 400, 403, 404, 500, 503}

\* the JSON values the appliance may answer any request with
AnyReplyValues ==
    {RList(items) : items \in UNION {[1..k -> ReplyItems] : k \in 0..MaxReplyLen}}
    \cup {RItem(item) : item \in ReplyItems \cup {ScalarItem(JNull)}}
    \cup {FullReply(JBool(TRUE)), FullReply(JInt(0))}

ReplyValues(req) == AnyReplyValues \cup EchoReplies(req)

\* the ways the device call ends whatever the request
AnyOutcomes ==
    {OkJson(rv) : rv \in AnyReplyValues}
    \cup {HttpError(c) : c \in UpstreamCodes}
    \cup {OkNotJson, OkUndecodable, UrlError, ReadTimeout}
    \cup {ViaRedirect(o) : o \in {OkJson(FullReply(JBool(TRUE))), HttpError(404), UrlError}}

DeviceOutcomes(req) == AnyOutcomes \cup {OkJson(rv) : rv \in EchoReplies(req)}

----------------------------------------------------------------------------
(* The state machine *)

\* the invocations that may run at the same time in one execution environment
Invocations == {1, 2}
\* an invocation that has not begun: the locals of lambda_handler
NoInvocation ==
    [pc |-> "idle", event |-> NoEvent, sent |-> << >>, outcome |-> NoOutcome,
     envelope |-> NoEnvelope]

\* the API_IP settings of the deployments: not set, an address with
\* userinfo, an address with two ports, an address with a port
ApiIpSettings ==
    { << >>,
      <<"1",".","2",".","3",".","4","@","e","v","i","l",".","c","o","m">>,
      <<"1","0",".","0",".","0",".","1",":","8","0",":","8","0">>,
      <<"f","i","r","e","b","r","e","a","k",".","l","o","c","a","l",":","8","4","4","3">> }

\* the arguments of a direct call
IpArg(str) == [kind |-> "ip_str", ip_str |-> str, value |-> JNull]
ValueArg(v) == [kind |-> "value", ip_str |-> << >>, value |-> v]
NoArg == [kind |-> "none", ip_str |-> << >>, value |-> JNull]
\* its result: the boolean returned, or the exception raised
Result(exc, b) == [exc |-> exc, value |-> b]
NoResult == Result("none", FALSE)

Init ==
    /\ inflight = [i \in Invocations |-> NoInvocation]
    /\ API_IP \in ApiIpSettings
    /\ loaded = "none"
    /\ API_URL = NoUrl
    /\ fn = "none"
    /\ arg = NoArg
    /\ res = NoResult
    /\ PORT_OFFSET \in BOOLEAN
    /\ API_TOKEN \in {"", "token"}
    /\ handler = "none"
    /\ pc = "idle"
    /\ event = NoEvent
    /\ sent = << >>
    /\ outcome = NoOutcome
    /\ envelope = NoEnvelope

\* variant: only a missing API_IP stops the import
LoadRaises_MissingOnly(ip) == ip = << >>

\* the import raises ValueError: API_IP is missing or not valid
LoadRaises(ip) == ip = << >> \/ ~validate_api_ip(ip)

\* the execution environment imports port_control: the module body runs
\* to its end, or to the ValueError that leaves no module and no handler
LoadControl ==
    /\ loaded = "none"
    /\ loaded' = IF LoadRaises(API_IP) THEN "failed" ELSE "port_control"
    /\ API_URL' = IF LoadRaises(API_IP) THEN NoUrl ELSE Url(API_IP, ControlPath)
    /\ UNCHANGED <<inflight, API_IP, fn, arg, res, PORT_OFFSET, API_TOKEN,
                   handler, pc, event, sent, outcome, envelope>>

\* the execution environment imports port_status
LoadStatus ==
    /\ loaded = "none"
    /\ loaded' = IF LoadRaises(API_IP) THEN "failed" ELSE "port_status"
    /\ API_URL' = IF LoadRaises(API_IP) THEN NoUrl ELSE Url(API_IP, StatusPath)
    /\ UNCHANGED <<inflight, API_IP, fn, arg, res, PORT_OFFSET, API_TOKEN,
                   handler, pc, event, sent, outcome, envelope>>

\* port_control.lambda_handler is invoked and runs until it returns or
\* blocks in urlopen
InvokeControl(ev) ==
    /\ loaded = "port_control"
    /\ pc = "idle"
    /\ handler' = "port_control"
    /\ event' = ev
    /\ sent' = ControlRequests(ev)
    /\ outcome' = NoOutcome
    /\ envelope' = ControlValidate(ev)
    /\ pc' = IF ControlValidate(ev) = NoEnvelope THEN "urlopen" ELSE "returned"
    /\ UNCHANGED <<inflight, API_IP, loaded, API_URL, fn, arg, res, PORT_OFFSET, API_TOKEN>>

\* the device call comes back and port_control.lambda_handler runs to its return
ControlReturns(o) ==
    /\ pc = "urlopen"
    /\ handler = "port_control"
    /\ outcome' = o
    /\ envelope' = ControlFinish(control_port(o))
    /\ pc' = "returned"
    /\ UNCHANGED <<inflight, API_IP, loaded, API_URL, fn, arg, res, PORT_OFFSET, API_TOKEN, handler, event, sent>>

\* port_status.lambda_handler is invoked
InvokeStatus(ev) ==
    /\ loaded = "port_status"
    /\ pc = "idle"
    /\ handler' = "port_status"
    /\ event' = ev
    /\ sent' = StatusRequests(ev)
    /\ outcome' = NoOutcome
    /\ envelope' = StatusValidate(ev)
    /\ pc' = IF StatusValidate(ev) = NoEnvelope THEN "urlopen" ELSE "returned"
    /\ UNCHANGED <<inflight, API_IP, loaded, API_URL, fn, arg, res, PORT_OFFSET, API_TOKEN>>

\* the device call comes back and port_status.lambda_handler runs to its return
StatusReturns(o) ==
    /\ pc = "urlopen"
    /\ handler = "port_status"
    /\ outcome' = o
    /\ envelope' = StatusFinish(fetch_port_status(o))
    /\ pc' = "returned"
    /\ UNCHANGED <<inflight, API_IP, loaded, API_URL, fn, arg, res, PORT_OFFSET, API_TOKEN, handler, event, sent>>

\* the envelope has gone to the caller; the loaded module, with its
\* configuration, waits for the next invocation, whose locals are fresh
NextInvocation ==
    /\ pc = "returned"
    /\ pc' = "idle"
    /\ handler' = "none"
    /\ event' = NoEvent
    /\ sent' = << >>
    /\ outcome' = NoOutcome
    /\ envelope' = NoEnvelope
    /\ UNCHANGED <<inflight, API_IP, loaded, API_URL, fn, arg, res, PORT_OFFSET, API_TOKEN>>

Next ==
    \/ LoadControl
    \/ LoadStatus
    \/ \E ev \in ControlEvents : InvokeControl(ev)
    \/ \E ev \in StatusEvents : InvokeStatus(ev)
    \/ pc = "urlopen" /\ \E o \in DeviceOutcomes(sent[1]) : ControlReturns(o)
    \/ pc = "urlopen" /\ \E o \in DeviceOutcomes(GetRequest) : StatusReturns(o)
    \/ NextInvocation

Spec == Init /\ [][Next]_vars

----------------------------------------------------------------------------
(* Direct calls of the pure functions *)

\* str(n) of a natural number
RECURSIVE DigitsOf(_)
DigitsOf(n) ==
    IF n < 10 THEN <<DigitChars[n + 1]>>
    ELSE DigitsOf(n \div 10) \o <<DigitChars[(n % 10) + 1]>>

Rep(c, n) == [i \in 1..n |-> c]
Dotted(a, b, c, d) ==
    DigitsOf(a) \o <<".">> \o DigitsOf(b) \o <<".">> \o DigitsOf(c) \o <<".">> \o DigitsOf(d)
\* str with ch put in after its first pos characters
Insert(str, pos, ch) == SubSeq(str, 1, pos) \o <<ch>> \o SubSeq(str, pos + 1, Len(str))

sExampleCom == <<"e","x","a","m","p","l","e",".","c","o","m">>
LongestLabel == Rep("a", 63)
LongestName ==
    LongestLabel \o <<".">> \o LongestLabel \o <<".">> \o LongestLabel \o <<".">> \o Rep("b", 61)

OctetProbes == {0, 1, 9, 10, 99, 100, 199, 200, 249, 250, 255}

\* hosts of the three allowed forms
HostProbes ==
    {sLocalhost}
    \cup {Dotted(o, o, o, o) : o \in OctetProbes}
    \cup {Dotted(192, 168, o, 1) : o \in OctetProbes}
    \cup { <<"a">>, sExampleCom, <<"a","-","b",".","c","0">>, <<"E","X","A","M","P","L","E",".","C","o","m">>, <<"3","c","o","m",".","n","e","t">>,
           <<"x","-","-","y">>, LongestLabel, LongestName }

PortNumberProbes ==
    (1..PortProbe) \cup ((65536 - PortProbe)..65535) \cup {80, 8443}

\* host, host:n
AddressProbes ==
    HostProbes
    \cup {h \o <<":">> \o DigitsOf(n) : h \in HostProbes, n \in PortNumberProbes}

\* the strings validate_api_ip is called with
IpStrings ==
    LET
        \* suffixes that are no port in 1..65535
        BadPortProbes ==
            { << >>, <<"0">>, <<"n","o","t","a","p","o","r","t">>, <<"+","8","0">>, <<" ","8","0">>,
              <<"8","0","\n">>, <<"-","1">>, <<"8"," ","0">>, <<"u00B2">>, <<"0","0","0">> }
            \cup {DigitsOf(65535 + k) : k \in 1..PortProbe}

        \* suffixes Python takes for a port beside the plain decimal numbers
        OddPortProbes == { <<"0","0","8","0">>, <<"u0663">> }

        \* strings with a dangerous character at every position
        DangerousProbes ==
            {Insert(base, pos, ch) :
                base \in {<<"a",".","b",":","8","0">>, sLocalhost},
                pos \in 0..6, ch \in DangerousChars}

        ColonProbes ==
            { <<"a",":","b",":","c">>, <<"a",":","8","0",":","8","0">>, <<":",":">>, <<"1",".","2",".","3",".","4",":","8","0",":">>, <<":","8","0",":">>,
              <<"a",":",":","8","0">> }

        \* hosts of none of the allowed forms
        BadHostProbes ==
            { << >>, <<"a","_","b">>, <<"-","a",".","c","o","m">>, <<"a","-",".","c","o","m">>, <<"a",".",".","b">>, <<"e","x","a","m","p","l","e",".","c","o","m",".">>,
              <<"e","x","a"," ","m","p","l","e">>, <<"\t","a">>, Rep("a", 64), LongestName \o <<"c">>,
              <<"a","\n","\n">>, <<"\n","a">>, <<"a","\r">>, <<"a","\n",".","b">>,
              <<"2","u0663","u0663",".","1",".","1",".","1">>, <<"u0663","c","o","m">>,
              Dotted(1, 2, 3, 4) \o <<".">>, <<"1",".","2",".","3",".">> }

        \* hosts the patterns accept although they are none of the allowed forms
        OddHostProbes ==
            { sExampleCom \o <<"\n">>, sLocalhost \o <<"\n">>, Dotted(1, 2, 3, 4) \o <<"\n">>,
              LongestName \o <<"\n">>,
              <<"u0663",".","u0663",".","u0663",".","u0663">>,
              <<"9","9","9",".","1",".","1",".","1">>, <<"1",".","2",".","3">> }
    IN
        AddressProbes
        \cup {h \o <<":">> \o p : h \in {sLocalhost, sExampleCom}, p \in BadPortProbes \cup OddPortProbes}
        \cup DangerousProbes
        \cup ColonProbes
        \cup BadHostProbes
        \cup {h \o <<":","8","0">> : h \in BadHostProbes \cup OddHostProbes}
        \cup OddHostProbes

ParseBoolStrings ==
    LET words == TrueWords \cup FalseWords
    IN  words
        \cup {[i \in 1..Len(w) |-> IF i = 1 /\ ~IsDigit(w[i])
                                    THEN CHOOSE u \in {UpperChars[k] : k \in 1..26} :
                                           LowerChar(u) = w[i]
                                    ELSE w[i]] : w \in words}
        \cup {<<" ">> \o w \o <<"\n">> : w \in words}
        \cup {<<"\t">> \o w : w \in words}
        \cup { <<"Y","E","S">>, <<"O","F","F">>, <<"T","R","U","E">>,
               <<"m","a","y","b","e">>, << >>, <<" ">>, <<"2">>, <<"t">>, <<"f">>,
               <<"y","e","s","!">>, <<"o"," ","n">>, <<"1","0">>, <<"n","o","n","e">> }

ParseBoolValues ==
    {JStr(str) : str \in ParseBoolStrings}
    \cup {JBool(TRUE), JBool(FALSE)}
    \cup {JInt(i) : i \in (0 - PortMargin)..(1 + PortMargin)}
    \cup {JNull, JAbsent, JFloat(0), JFloat(1), JList}

InitDirect ==
    /\ inflight = [i \in Invocations |-> NoInvocation]
    /\ API_IP = << >>
    /\ loaded = "none"
    /\ API_URL = NoUrl
    /\ fn = "none"
    /\ arg \in {IpArg(str) : str \in IpStrings} \cup {ValueArg(v) : v \in ParseBoolValues}
    /\ res = NoResult
    /\ PORT_OFFSET = FALSE
    /\ API_TOKEN = ""
    /\ handler = "none"
    /\ pc = "idle"
    /\ event = NoEvent
    /\ sent = << >>
    /\ outcome = NoOutcome
    /\ envelope = NoEnvelope

\* validate_api_ip(arg) is called and returns
CallValidate ==
    /\ fn = "none"
    /\ arg.kind = "ip_str"
    /\ fn' = "validate_api_ip"
    /\ res' = Result("none", validate_api_ip(arg.ip_str))
    /\ UNCHANGED <<inflight, API_IP, loaded, API_URL, arg, PORT_OFFSET, API_TOKEN,
                   handler, pc, event, sent, outcome, envelope>>

\* parse_bool(arg) is called and returns or raises
CallParseBool ==
    /\ fn = "none"
    /\ arg.kind = "value"
    /\ fn' = "parse_bool"
    /\ res' = IF ParseBoolRaises(arg.value) THEN Result("ValueError", FALSE)
              ELSE Result("none", parse_bool(arg.value))
    /\ UNCHANGED <<inflight, API_IP, loaded, API_URL, arg, PORT_OFFSET, API_TOKEN,
                   handler, pc, event, sent, outcome, envelope>>

\* parse_bool is called on the boolean it returned for arg
CallParseBoolAgain ==
    /\ fn = "parse_bool"
    /\ res.exc = "none"
    /\ fn' = "parse_bool twice"
    /\ res' = IF ParseBoolRaises(JBool(res.value)) THEN Result("ValueError", FALSE)
              ELSE Result("none", parse_bool(JBool(res.value)))
    /\ UNCHANGED <<inflight, API_IP, loaded, API_URL, arg, PORT_OFFSET, API_TOKEN,
                   handler, pc, event, sent, outcome, envelope>>

NextDirect ==
    \/ CallValidate
    \/ CallParseBool
    \/ CallParseBoolAgain

SpecDirect == InitDirect /\ [][NextDirect]_vars

----------------------------------------------------------------------------
(* Concurrent invocations of one loaded module.  Each invocation has its    *)
(* own locals; the module globals are the variables the handlers read.     *)

\* a module that has been loaded with a valid configuration
InitConcurrent ==
    /\ inflight = [i \in Invocations |-> NoInvocation]
    /\ API_IP \in {ip \in ApiIpSettings : ~LoadRaises(ip)}
    /\ loaded \in {"port_control", "port_status"}
    /\ API_URL = Url(API_IP, IF loaded = "port_control" THEN ControlPath ELSE StatusPath)
    /\ fn = "none"
    /\ arg = NoArg
    /\ res = NoResult
    /\ PORT_OFFSET \in BOOLEAN
    /\ API_TOKEN \in {"", "token"}
    /\ handler = "none"
    /\ pc = "idle"
    /\ event = NoEvent
    /\ sent = << >>
    /\ outcome = NoOutcome
    /\ envelope = NoEnvelope

\* variant: the handler switches the numbering mode of the module
BeginInvocation_WritesOffset(i, ev) ==
    /\ inflight[i].pc = "idle"
    /\ LET validated == IF loaded = "port_control"
                        THEN ControlValidate(ev) ELSE StatusValidate(ev)
           requests == IF loaded = "port_control"
                       THEN ControlRequests(ev) ELSE StatusRequests(ev)
       IN  inflight' = [inflight EXCEPT ![i] =
                [pc |-> IF validated = NoEnvelope THEN "urlopen" ELSE "returned",
                 event |-> ev, sent |-> requests, outcome |-> NoOutcome,
                 envelope |-> validated]]
    /\ PORT_OFFSET' = ~PORT_OFFSET
    /\ UNCHANGED <<API_IP, loaded, API_URL, fn, arg, res, API_TOKEN,
                   handler, pc, event, sent, outcome, envelope>>

\* lambda_handler is invoked while other invocations may be running: it
\* runs until it returns or blocks in urlopen
BeginInvocation(i, ev) ==
    /\ inflight[i].pc = "idle"
    /\ LET validated == IF loaded = "port_control"
                        THEN ControlValidate(ev) ELSE StatusValidate(ev)
           requests == IF loaded = "port_control"
                       THEN ControlRequests(ev) ELSE StatusRequests(ev)
       IN  inflight' = [inflight EXCEPT ![i] =
                [pc |-> IF validated = NoEnvelope THEN "urlopen" ELSE "returned",
                 event |-> ev, sent |-> requests, outcome |-> NoOutcome,
                 envelope |-> validated]]
    /\ UNCHANGED <<API_IP, loaded, API_URL, fn, arg, res, PORT_OFFSET, API_TOKEN,
                   handler, pc, event, sent, outcome, envelope>>

\* the device call of invocation i comes back and its handler runs to its return
FinishInvocation(i, o) ==
    /\ inflight[i].pc = "urlopen"
    /\ inflight' = [inflight EXCEPT ![i] =
            [@ EXCEPT !.pc = "returned", !.outcome = o,
                      !.envelope = IF loaded = "port_control"
                                   THEN ControlFinish(control_port(o))
                                   ELSE StatusFinish(fetch_port_status(o))]]
    /\ UNCHANGED <<API_IP, loaded, API_URL, fn, arg, res, PORT_OFFSET, API_TOKEN,
                   handler, pc, event, sent, outcome, envelope>>

NextConcurrent ==
    LET events ==
            IF loaded = "port_control"
            THEN { Event("dict", NoBody, JInt(3), JBool(TRUE)),
                   Event("dict", NoBody, JInt(12), JStr(<<"o","f","f">>)),
                   Event("dict", NoBody, JInt(0), JBool(TRUE)),
                   Event("dict", NoBody, JStr(sAll), JInt(1)),
                   Event("dict", NoBody, JInt(3), JAbsent),
                   Event("dict", Body("json_object", JInt(7), JBool(FALSE)), JInt(5), JBool(TRUE)),
                   Event("dict", Body("invalid_json", JAbsent, JAbsent), JAbsent, JAbsent) }
            ELSE StatusEvents
        outcomes(req) ==
            { OkJson(FullReply(JBool(TRUE))), OkJson(RItem(DictItem(JInt(3), JBool(TRUE)))),
              OkNotJson, HttpError(503), UrlError, ReadTimeout }
            \cup {OkJson(rv) : rv \in EchoReplies(req)}
    IN  \/ \E i \in Invocations : \E ev \in events : BeginInvocation(i, ev)
        \/ \E i \in Invocations :
              /\ inflight[i].pc = "urlopen"
              /\ \E o \in outcomes(inflight[i].sent[1]) : FinishInvocation(i, o)

SpecConcurrent == InitConcurrent /\ [][NextConcurrent]_vars

----------------------------------------------------------------------------
(* Properties *)

\* the port and activate values the running invocation extracted
ThePort == NormalizePort(ExtractedPort(event))
TheActivate == ExtractedActivate(event)
InControl == handler = "port_control" /\ pc # "idle"
Returned == pc = "returned"
AllSpellings == {sAll, <<"A","L","L">>, <<"A","l","l">>}

\* C1: forward port mapping.  For every integer port p that reaches
\* control_port: with PORT_OFFSET on and 1 <= p <= 12 the POST carries
\* p - 1; with PORT_OFFSET off and 0 <= p <= 11 it carries p; for every
\* other p nothing is sent and the envelope is a 400 whose error names the
\* active numbering and its range.
C1_ForwardMapping ==
    (InControl /\ ControlCalls(event) /\ ThePort.t = "int") =>
        IF PORT_OFFSET /\ ThePort.n >= 1 /\ ThePort.n <= 12
        THEN Len(sent) = 1 /\ sent[1].method = "POST" /\ sent[1].port = JInt(ThePort.n - 1)
        ELSE IF ~PORT_OFFSET /\ ThePort.n >= 0 /\ ThePort.n <= 11
        THEN Len(sent) = 1 /\ sent[1].method = "POST" /\ sent[1].port = JInt(ThePort.n)
        ELSE /\ sent = << >>
             /\ Returned
             /\ envelope.statusCode = 400
             /\ envelope.body.error = IF PORT_OFFSET THEN MsgRangePhysical ELSE MsgRangeAPI

C1_Witness ==
    /\ InControl /\ PORT_OFFSET
    /\ ExtractedPort(event) = JInt(12)
    /\ Len(sent) = 1 /\ sent[1].port = JInt(11)

\* C2: numbering round trip.  When a single-port request was sent and the
\* appliance answers with a status object whose port is the device port it
\* was sent, the envelope is a 200 whose port field is the port the caller
\* requested.
C2_RoundTrip ==
    (InControl /\ Returned /\ Len(sent) = 1 /\ sent[1].port.t # "str"
       /\ outcome.kind = "json" /\ IsDict(outcome.value)
       /\ outcome.value.item.port = sent[1].port) =>
        /\ envelope.statusCode = 200
        /\ envelope.body.shape = "merged"
        /\ envelope.body.value.item.port.n = ThePort.n
        /\ ThePort.t = "int" => envelope.body.value.item.port = ThePort

C2_Witness ==
    /\ InControl /\ Returned /\ PORT_OFFSET
    /\ ExtractedPort(event) = JInt(12)
    /\ outcome = OkJson(RItem(DictItem(JInt(11), JBool(FALSE))))
    /\ envelope.statusCode = 200
    /\ envelope.body.value = RItem(DictItem(JInt(12), JBool(FALSE)))

\* C3: device protocol.  Every POST sent to the appliance carries a port
\* that is an integer in 0..11 or the string "all", and an activate value
\* that is a boolean.
C3_DeviceProtocol ==
    \A i \in 1..Len(sent) :
        sent[i].method = "POST" =>
            /\ \/ sent[i].port.t = "int" /\ sent[i].port.n \in 0..11
               \/ sent[i].port = JStr(sAll)
            /\ sent[i].activate.t = "bool"

\* the item the caller is shown for a reply item: the port one higher when
\* physical numbering is on and the item has a port, all else as it was
Reported(item, shown) ==
    /\ shown.kind = item.kind
    /\ shown.active = item.active
    /\ shown.v = item.v
    /\ shown.port.t = item.port.t
    /\ shown.port.s = item.port.s
    /\ shown.port.n = IF PORT_OFFSET /\ item.kind = "dict" /\ item.port.t # "absent"
                      THEN item.port.n + 1 ELSE item.port.n

IsStatusSequence(rv) ==
    /\ IsList(rv)
    /\ \A i \in 1..Len(rv.items) :
            rv.items[i].kind = "dict" /\ rv.items[i].port.t = "int"

\* C5: the "all" sentinel.  A port string that is "all" in any case is sent
\* as exactly "all" under both numbering modes, and a sequence of status
\* objects in reply gives a 200 envelope with one entry of ports per element.
C5_AllSentinel ==
    (InControl /\ ControlCalls(event) /\ IsInstanceStr(ExtractedPort(event))
       /\ ExtractedPort(event).s \in AllSpellings) =>
        /\ Len(sent) = 1
        /\ sent[1].method = "POST"
        /\ sent[1].port = JStr(sAll)
        /\ (Returned /\ outcome.kind = "json" /\ IsStatusSequence(outcome.value)) =>
            /\ envelope.statusCode = 200
            /\ envelope.body.shape = "ports"
            /\ Len(envelope.body.value.items) = Len(outcome.value.items)

C5_Witness ==
    /\ InControl /\ Returned
    /\ ExtractedPort(event) = JStr(<<"A","L","L">>)
    /\ sent = << PostRequest(JStr(sAll), TRUE) >>
    /\ outcome = OkJson(FullReply(JBool(TRUE)))
    /\ envelope.statusCode = 200
    /\ Len(envelope.body.value.items) = 12

\* C6: every envelope either handler returns has executionTimeMs in its body.
C6_ExecutionTimeInEveryBody ==
    (Returned /\ envelope.raised = "none") => envelope.body.executionTimeMs

\* C7: no unhandled fault.  Whatever the event and the outcome of the device
\* call, the handler returns an envelope with an integer status code and the
\* JSON content type; no exception leaves lambda_handler.
C7_NoUnhandledFault ==
    Returned =>
        /\ envelope.raised = "none"
        /\ envelope.statusCode \in 100..599
        /\ envelope.contentType = "application/json"
        /\ envelope.body.shape \in {"error", "ports", "merged"}

C7_Witness ==
    /\ Returned /\ handler = "port_control"
    /\ outcome = OkJson(RItem(ScalarItem(JNull)))
    /\ envelope.statusCode = 500
    /\ envelope.body.error = MsgUnexpectedControl

\* the input defects of an event of the port-control handler
BodyNotJson(ev) == ev.kind = "dict" /\ ev.body.kind = "invalid_json"
Reads(ev) == ev.kind = "dict" /\ ev.body.kind \in {"absent", "empty", "json_object"}
PortMissing(ev) == Reads(ev) /\ IsNone(ExtractedPort(ev))
ActivateMissing(ev) == Reads(ev) /\ IsNone(ExtractedActivate(ev))
PortStringBad(ev) ==
    /\ Reads(ev) /\ ExtractedPort(ev).t = "str"
    /\ ExtractedPort(ev).s \notin AllSpellings
    /\ ~IntParses(ExtractedPort(ev).s)
ActivateBad(ev) ==
    Reads(ev) /\ ~IsNone(ExtractedActivate(ev)) /\ ParseBoolRaises(ExtractedActivate(ev))
PortOutOfRange(ev) ==
    /\ Reads(ev) /\ ExtractedPort(ev).t \in {"int", "str"}
    /\ NormalizePort(ExtractedPort(ev)).t = "int"
    /\ IF PORT_OFFSET THEN NormalizePort(ExtractedPort(ev)).n \notin 1..12
       ELSE NormalizePort(ExtractedPort(ev)).n \notin 0..11
InputDefect(ev) ==
    \/ BodyNotJson(ev) \/ PortMissing(ev) \/ ActivateMissing(ev)
    \/ PortStringBad(ev) \/ ActivateBad(ev) \/ PortOutOfRange(ev)

InputErrorMessages ==
    { MsgBadBody, MsgNoPort, MsgNoActivate, MsgPortNaN, MsgBadBool,
      MsgRangePhysical, MsgRangeAPI, MsgTypePhysical, MsgTypeAPI }

\* C9: validation short-circuits.  An invocation of the port-control handler
\* that ends with an input error has sent no request to the appliance.
C9_ValidationShortCircuits ==
    (InControl /\ Returned
       /\ (envelope.body.error \in InputErrorMessages \/ InputDefect(event))) =>
        sent = << >> /\ outcome = NoOutcome

C9_Witness ==
    /\ InControl /\ Returned /\ PORT_OFFSET
    /\ ExtractedPort(event) = JInt(0)
    /\ ~ParseBoolRaises(TheActivate)
    /\ envelope.body.error = MsgRangePhysical
    /\ sent = << >>

C11_TransportFailures502 ==
    (Returned /\ outcome.kind \in {"url_error", "read_timeout"}) =>
        envelope.statusCode = 502

\* C12: malformed reply maps to 500.  When the appliance answers 2xx with a
\* body that is not valid JSON, either handler returns 500 with the invalid
\* JSON response error; the port-control handler never reports it as a 400.
C12_MalformedReply500 ==
    (Returned /\ outcome.kind \in {"not_json", "undecodable"}) =>
        /\ envelope.statusCode = 500
        /\ envelope.body.error = MsgBadReply

\* C13: the credential check comes first.  With API_TOKEN empty every
\* invocation of either handler returns 500 with the missing-token error,
\* whatever the event holds, and sends nothing to the appliance.
C13_CredentialFirst ==
    (pc # "idle" /\ API_TOKEN = "") =>
        /\ Returned
        /\ envelope.statusCode = 500
        /\ envelope.body.error = MsgToken
        /\ sent = << >>
        /\ outcome = NoOutcome

C13_Witness ==
    /\ InControl /\ API_TOKEN = ""
    /\ event.body.kind = "invalid_json"
    /\ envelope.statusCode = 500
    /\ envelope.body.error = MsgToken


\* C14: fail-closed startup.  When API_IP is empty or fails validate_api_ip
\* the import ends in the ValueError: API_URL is never built, no handler of
\* that execution environment ever runs and nothing is ever sent.
\* Conversely a module is loaded only with a validated API_IP, and every
\* request that is sent goes to the URL built from that API_IP.
C14_FailClosedStartup ==
    /\ (loaded # "none" /\ (API_IP = << >> \/ ~validate_api_ip(API_IP))) =>
           /\ loaded = "failed"
           /\ API_URL = NoUrl
           /\ handler = "none" /\ pc = "idle"
           /\ sent = << >>
    /\ loaded \in {"port_control", "port_status"} =>
           /\ validate_api_ip(API_IP)
           /\ API_URL.scheme = "https" /\ API_URL.authority = API_IP
    /\ \A i \in 1..Len(sent) :
           /\ validate_api_ip(sent[i].url.authority)
           /\ sent[i].url = Url(API_IP, IF handler = "port_control"
                                        THEN ControlPath ELSE StatusPath)

\* an import that an API_IP with userinfo has stopped
C14_Witness ==
    /\ loaded = "failed"
    /\ \E i \in 1..Len(API_IP) : API_IP[i] = "@"
    /\ API_URL = NoUrl

IsValidateCall == fn = "validate_api_ip"
\* the number of ':' in the argument, its part before the first ':' and
\* its part after it
Colons == Cardinality({i \in 1..Len(arg.ip_str) : arg.ip_str[i] = ":"})
HostPart ==
    IF Colons = 0 THEN arg.ip_str
    ELSE SubSeq(arg.ip_str, 1,
                (CHOOSE i \in 1..Len(arg.ip_str) :
                    arg.ip_str[i] = ":" /\ \A j \in 1..(i - 1) : arg.ip_str[j] # ":") - 1)
PortPart == SubSeq(arg.ip_str, Len(HostPart) + 2, Len(arg.ip_str))

\* C15: validate_api_ip returns false for the empty string, for every
\* string that contains one of @ / \ ? # at any position, and for every
\* string with more than one ':'.
C15_RejectsDangerous ==
    (/\ IsValidateCall
     /\ \/ arg.ip_str = << >>
        \/ \E i \in 1..Len(arg.ip_str) : arg.ip_str[i] \in {"@", "/", "\\", "?", "#"}
        \/ Colons > 1)
        => res = Result("none", FALSE)

\* a string that only its second ':' makes invalid
C15_Witness ==
    /\ IsValidateCall
    /\ arg.ip_str = <<"a",":","8","0",":","8","0">>
    /\ res = Result("none", FALSE)

\* C16: validate_api_ip returns true for localhost, for every dotted IPv4
\* address with octets 0..255 and for every DNS name of at most 253
\* characters whose labels are 1 to 63 letters, digits and inner hyphens,
\* each alone or followed by ':' and a port number in 1..65535.
C16_AcceptsAddresses ==
    (IsValidateCall /\ arg.ip_str \in AddressProbes) => res = Result("none", TRUE)

\* the longest name, with the highest port
C16_Witness ==
    /\ IsValidateCall
    /\ arg.ip_str = LongestName \o <<":","6","5","5","3","5">>
    /\ res = Result("none", TRUE)

\* the text denotes a number in 1..65535: all decimal digits, and one of
\* them is not a zero, and what follows the leading zeros is at most 65535
IsPortText(str) ==
    LET nz == {i \in 1..Len(str) : DecimalVal(str[i]) # 0}
        first == CHOOSE i \in nz : \A j \in nz : i <= j
    IN  /\ str # << >>
        /\ \A i \in 1..Len(str) : IsDecimalChar(str[i])
        /\ nz # {}
        /\ Len(str) - first + 1 <= 5
        /\ PortIntOf(SubSeq(str, first, Len(str))) <= 65535

\* C17: a ':' suffix is accepted only when the text after the ':' is not
\* empty, is all digits and denotes an integer in 1..65535; the suffixes
\* '', '0', '65536' and 'notaport' are rejected.
C17_PortSuffix ==
    /\ (IsValidateCall /\ Colons = 1 /\ res.value) => IsPortText(PortPart)
    /\ (IsValidateCall /\ Colons = 1
            /\ PortPart \in { << >>, <<"0">>, <<"6","5","5","3","6">>,
                              <<"n","o","t","a","p","o","r","t">> })
           => res = Result("none", FALSE)

\* port 0 on a good host
C17_Witness ==
    /\ IsValidateCall
    /\ arg.ip_str = sLocalhost \o <<":","0">>
    /\ res = Result("none", FALSE)

\* ASCII letters, ASCII digits, '-' and '.'
HostAlphabet ==
    {UpperChars[i] : i \in 1..26} \cup {LowerChars[i] : i \in 1..26}
    \cup {DigitChars[i] : i \in 1..10} \cup {"-", "."}

\* str is a sequence of labels joined by '.', or localhost, or a dotted quad
IsHostForm(str) ==
    \/ str = <<"l","o","c","a","l","h","o","s","t">>
    \/ /\ Len(Split(str, ".")) = 4
       /\ \A k \in 1..4 :
            /\ Len(Split(str, ".")[k]) \in 1..3
            /\ \A i \in 1..Len(Split(str, ".")[k]) : IsDigit(Split(str, ".")[k][i])
    \/ \A k \in 1..Len(Split(str, ".")) :
            LET label == Split(str, ".")[k]
            IN  /\ Len(label) \in 1..63
                /\ label[1] # "-" /\ label[Len(label)] # "-"

\* C18: the host part of every accepted string is exactly localhost, a
\* dotted quad or a sequence of labels, and holds no character other than
\* ASCII letters, digits, '-' and '.': no whitespace, no newline, no
\* control character.
C18_HostCharset ==
    (IsValidateCall /\ res.value) =>
        /\ \A i \in 1..Len(HostPart) : HostPart[i] \in HostAlphabet
        /\ IsHostForm(HostPart)

\* the boolean the words of the claim give for a string, "none" for others
ClaimedWord(str) ==
    LET w == StrLower(StrStrip(str))
    IN  IF w \in { <<"t","r","u","e">>, <<"1">>, <<"y","e","s">>, <<"y">>, <<"o","n">> }
        THEN Result("none", TRUE)
        ELSE IF w \in { <<"f","a","l","s","e">>, <<"0">>, <<"n","o">>, <<"n">>,
                        <<"o","f","f">> }
        THEN Result("none", FALSE)
        ELSE Result("ValueError", FALSE)

\* what the claim says parse_bool does with v
Claimed(v) ==
    CASE v.t = "bool" -> Result("none", v.n = 1)
      [] v.t = "int" /\ v.n = 0 -> Result("none", FALSE)
      [] v.t = "int" /\ v.n = 1 -> Result("none", TRUE)
      [] v.t = "str" -> ClaimedWord(v.s)
      [] OTHER -> Result("ValueError", FALSE)

\* C19: parse_bool returns a boolean unchanged, so that applying it to its
\* own result gives that result again; turns the integers 0 and 1 into
\* False and True and fails on every other integer; turns a string, trimmed
\* and lowercased, that is one of true/1/yes/y/on into True and one of
\* false/0/no/n/off into False; raises ValueError for every other string
\* and every other type.
C19_ParseBool ==
    /\ fn = "parse_bool" => res = Claimed(arg.value)
    /\ fn = "parse_bool twice" => res = Claimed(arg.value) /\ res.exc = "none"

\* a padded word, parsed and parsed again
C19_Witness ==
    /\ fn = "parse_bool twice"
    /\ arg.value = JStr(<<" ","o","n","\n">>)
    /\ res = Result("none", TRUE)

\* the event that carries the body's fields at its top level, without a body
Flattened(ev) == Event("dict", NoBody, ev.body.port, ev.body.activate)

C21_InvalidBodyFailsFast ==
    (InControl /\ API_TOKEN # "" /\ event.kind = "dict"
       /\ event.body.kind \in {"invalid_json", "empty"}) =>
        /\ Returned
        /\ envelope.statusCode = 400
        /\ envelope.body.error = MsgBadBody
        /\ sent = << >>

\* no port is obtained from the event: it has no body or a body that is
\* valid JSON, and the place port is read from does not hold one
NoPortObtained(ev) ==
    /\ ev.kind = "dict"
    /\ ev.body.kind \in {"absent", "json_object", "json_other"}
    /\ IsNone(IF ev.body.kind = "absent" THEN ev.port ELSE ev.body.port)
NoActivateObtained(ev) ==
    /\ ev.kind = "dict"
    /\ ev.body.kind \in {"absent", "json_object", "json_other"}
    /\ IsNone(IF ev.body.kind = "absent" THEN ev.activate ELSE ev.body.activate)

\* C22: missing parameters.  With a credential configured, for every event,
\* direct or with a body that is valid JSON of any type, from which no port
\* is obtained the port-control handler returns 400 with the error naming
\* port; when a port is obtained and no activate, 400 with the error naming
\* activate; nothing is sent in either case.
C22_MissingParameters ==
    /\ (InControl /\ API_TOKEN # "" /\ NoPortObtained(event)) =>
           /\ Returned /\ envelope.statusCode = 400
           /\ envelope.body.error = MsgNoPort /\ sent = << >>
    /\ (InControl /\ API_TOKEN # "" /\ ~NoPortObtained(event) /\ NoActivateObtained(event)) =>
           /\ Returned /\ envelope.statusCode = 400
           /\ envelope.body.error = MsgNoActivate /\ sent = << >>

C24_StatusIsSequence ==
    (handler = "port_status" /\ Returned /\ envelope.statusCode = 200) =>
        /\ envelope.body.shape = "ports"
        /\ IsStatusSequence(envelope.body.value)
        /\ IsList(outcome.value)
        /\ Len(envelope.body.value.items) = Len(outcome.value.items)

\* the HTTP requests of the invocation: those the handler handed to
\* urlopen and those urlopen made on its own
HttpRequests == Len(sent) + outcome.redirects

\* C25: no retries.  In every invocation of either handler at most one
\* HTTP request is sent to the appliance, whatever the outcome of that
\* request.
C25_NoRetries == HttpRequests <= 1

\* the envelope and the requests the loaded module gives for event ev when
\* the device call comes back with o, under the configuration it has now
AloneRequests(ev) ==
    IF loaded = "port_control" THEN ControlRequests(ev) ELSE StatusRequests(ev)
AloneEnvelope(ev, o) ==
    IF loaded = "port_control"
    THEN IF ControlValidate(ev) # NoEnvelope THEN ControlValidate(ev)
         ELSE ControlFinish(control_port(o))
    ELSE IF StatusValidate(ev) # NoEnvelope THEN StatusValidate(ev)
         ELSE StatusFinish(fetch_port_status(o))

\* C26: invocation isolation.  No step of a handler changes API_IP, API_URL,
\* API_TOKEN or PORT_OFFSET after the module is loaded, and under every
\* interleaving of concurrent invocations the requests and the envelope of
\* each invocation are those its own event, the configuration and the
\* appliance's reply to its own request give, whatever the other
\* invocations are doing.
C26_InvocationIsolation ==
    /\ [][UNCHANGED <<API_IP, API_URL, API_TOKEN, PORT_OFFSET, loaded>>]_vars
    /\ [](\A i \in Invocations :
            /\ inflight[i].pc # "idle" =>
                  inflight[i].sent = AloneRequests(inflight[i].event)
            /\ inflight[i].pc = "returned" =>
                  inflight[i].envelope = AloneEnvelope(inflight[i].event, inflight[i].outcome))

\* with the offset on, port 12 was sent as 11 and confirmed, while another
\* invocation for port 3 is still waiting for the appliance
C26_Witness ==
    /\ PORT_OFFSET /\ loaded = "port_control"
    /\ inflight[1].pc = "returned"
    /\ inflight[1].event.port = JInt(12)
    /\ inflight[1].envelope.statusCode = 200
    /\ inflight[2].pc = "urlopen"
    /\ inflight[2].event.port = JInt(3)

\* the class of the exception the invocation failed with, "none" when it
\* did not fail
ControlFailure ==
    IF ExtractExc(event) # "none" THEN ExtractExc(event)
    ELSE IF outcome = NoOutcome THEN "none"
    ELSE IF control_port(outcome).exc # "none" THEN control_port(outcome).exc
    ELSE IF ~IsList(control_port(outcome).value) /\ ~IsDict(control_port(outcome).value)
    THEN "TypeError"
    ELSE "none"
StatusFailure ==
    IF outcome = NoOutcome THEN "none"
    ELSE IF fetch_port_status(outcome).exc # "none" THEN fetch_port_status(outcome).exc
    ELSE IF LenRaises(fetch_port_status(outcome).value) THEN "TypeError"
    ELSE "none"
\* cls is none of the classes the handler has a clause of its own for
Unclassified(cls, classes) ==
    cls # "none" /\ \A c \in classes : ~IsSubclass(cls, c)

\* C27: non-leaking catch-all.  When an invocation fails with an exception
\* the handler has no clause of its own for, the envelope is 500 and its
\* error is the fixed message of that handler, the same for every such
\* exception.
C27_NonLeakingCatchAll ==
    /\ (InControl /\ Returned /\ API_TOKEN # ""
          /\ Unclassified(ControlFailure,
                          {"JSONDecodeError", "ValueError", "HTTPError", "URLError"})) =>
           /\ envelope.statusCode = 500
           /\ envelope.body.error = MsgUnexpectedControl
    /\ (handler = "port_status" /\ Returned /\ API_TOKEN # ""
          /\ Unclassified(StatusFailure, {"HTTPError", "URLError", "JSONDecodeError"})) =>
           /\ envelope.statusCode = 500
           /\ envelope.body.error = MsgUnexpectedStatus

\* a timeout while the reply is read, reported with the fixed message
C27_Witness ==
    /\ InControl /\ Returned
    /\ outcome.kind = "read_timeout"
    /\ ControlFailure = "TimeoutError"
    /\ envelope.statusCode = 500
    /\ envelope.body.error = MsgUnexpectedControl

\* the first defect of the event in the order of the claim, as the status
\* and the error it is reported with; NoEnvelope's for an event with none
FirstDefect ==
    IF API_TOKEN = "" THEN <<500, MsgToken>>
    ELSE IF BodyNotJson(event) THEN <<400, MsgBadBody>>
    ELSE IF PortMissing(event) THEN <<400, MsgNoPort>>
    ELSE IF ActivateMissing(event) THEN <<400, MsgNoActivate>>
    ELSE IF PortStringBad(event) THEN <<400, MsgPortNaN>>
    ELSE IF ActivateBad(event) THEN <<400, MsgBadBool>>
    ELSE IF PortOutOfRange(event)
    THEN <<400, IF PORT_OFFSET THEN MsgRangePhysical ELSE MsgRangeAPI>>
    ELSE <<0, "">>
HasDefect == API_TOKEN = "" \/ InputDefect(event)

C29_SuccessConfirmed ==
    /\ (Returned /\ envelope.statusCode = 200) =>
          /\ HttpRequests = 1
          /\ outcome.kind = "json"
    /\ (InControl /\ Returned /\ envelope.statusCode = 400
          /\ ~(outcome.kind = "http_error" /\ outcome.code = 400)) =>
          HttpRequests = 0

\* a validator with only the DNS branch of the host check
DnsOnlyVerdict(ip_str) ==
    IF ip_str = << >> THEN FALSE
    ELSE IF HasDangerousChar(ip_str) THEN FALSE
    ELSE LET parts == Split(ip_str, ":")
         IN  IF Len(parts) > 2 THEN FALSE
             ELSE IF ~DnsMatch(parts[1]) THEN FALSE
             ELSE IF Len(parts) = 2 /\ ~PortOk(parts[2]) THEN FALSE
             ELSE TRUE

\* C30: the host check is equivalent to the DNS pattern alone.  Every host
\* accepted by the localhost comparison or by the IPv4 pattern is accepted
\* by the DNS pattern, and the verdict of validate_api_ip on any input is
\* the verdict of a validator with only the DNS branch.
C30_DnsBranchAlone ==
    IsValidateCall =>
        /\ (HostPart = sLocalhost \/ Ipv4Match(HostPart)) => DnsMatch(HostPart)
        /\ res.value = DnsOnlyVerdict(arg.ip_str)

\* the same on the hosts whose digits are the ASCII digits: there the
\* localhost comparison and the IPv4 pattern add nothing to the DNS pattern
C30_AsciiHosts ==
    (IsValidateCall /\ \A i \in 1..Len(HostPart) : HostPart[i] # "u0663") =>
        /\ (HostPart = sLocalhost \/ Ipv4Match(HostPart)) => DnsMatch(HostPart)
        /\ res.value = DnsOnlyVerdict(arg.ip_str)

====
